---- MODULE Spec2Model ----
(***************************************************************************)
(* Model of the query dispatch engine of karrick/orange.                   *)
(*                                                                         *)
(* src/client.go holds two generations of the client:                      *)
(*   version 1: Client.query (retry loop, lines 274-313) calling           *)
(*              Client.queryServer (attempt executor, lines 322-405);      *)
(*   version 2: Client.QueryCallback (retry loop, lines 659-717) calling   *)
(*              Client.query (attempt executor, lines 728-854).            *)
(* The variable `version` selects which generation a behaviour follows.    *)
(*                                                                         *)
(* One query is in progress at a time: a caller blocked in the final       *)
(* select, and the worker goroutine the query spawned.                     *)
(***************************************************************************)
EXTENDS Integers, Sequences, FiniteSets, TLC

\* ------------------------------------------------------------------ bounds
MaxRetryCount == 2
MaxServers == 2
MaxQueries == 1
MaxValues == 3
MaxCallers == 2
MaxCalls == 5
MaxLines == 3

\* ------------------------------------------------------- program constants
defaultQueryLengthThreshold == 4096
StatusOK == 200
StatusMethodNotAllowed == 405
StatusRequestURITooLong == 414
StatusServiceUnavailable == 503

MethodGet == "GET"
MethodPut == "PUT"

\* --------------------------------------------------------------- errors
\* An error value: its dynamic type (kind), the status code it carries, what
\* the Temporary() / Timeout() methods and the DNSError type test give, and
\* the fields Message, Status and Body of the two error structs (their zero
\* value is the empty text).
Error(kind, code, temporary, timeout, dns) ==
    [kind |-> kind, code |-> code, temporary |-> temporary,
     timeout |-> timeout, dns |-> dns, message |-> "", status |-> "",
     body |-> ""]

Nil == Error("nil", 0, FALSE, FALSE, FALSE)

ErrRangeExceptionWithBody(message, body) ==
    [Error("ErrRangeException", 0, FALSE, FALSE, FALSE)
        EXCEPT !.message = body]

\* ErrRangeException{Message: message}; body is the response body, which
\* the literal leaves out.
ErrRangeException(message, body) ==
    [Error("ErrRangeException", 0, FALSE, FALSE, FALSE)
        EXCEPT !.message = message]

\* ErrStatusNotOK{Status: status, StatusCode: code}
ErrStatusNotOK(status, code) ==
    [Error("ErrStatusNotOK", code, FALSE, FALSE, FALSE)
        EXCEPT !.status = status]

\* The Error() methods, as the pieces of text they join.
ErrorText(e) ==
    IF e.kind = "ErrRangeException" THEN <<"RangeException: ", e.message>>
    ELSE IF e.kind = "ErrStatusNotOK" THEN <<e.status>>
    ELSE <<e.kind>>

\* context.Canceled is a plain error; context.DeadlineExceeded reports
\* Timeout() and Temporary().
CtxErr(k) ==
    IF k = "DeadlineExceeded"
    THEN Error("DeadlineExceeded", 0, TRUE, TRUE, FALSE)
    ELSE Error("Canceled", 0, FALSE, FALSE, FALSE)

\* http.NewRequest failure: a *url.Error wrapping a parse error.
ErrNewRequest == Error("ErrNewRequest", 0, FALSE, FALSE, FALSE)

\* Errors of reading or closing the response body.
ErrRead == Error("ErrRead", 0, FALSE, FALSE, FALSE)
ErrClose == Error("ErrClose", 0, FALSE, FALSE, FALSE)

\* Errors httpClient.Do can return.
TransportErrors ==
    { Error("ErrTransport", 0, TRUE, FALSE, FALSE),
      Error("ErrTransport", 0, FALSE, TRUE, FALSE),
      Error("ErrTransport", 0, FALSE, FALSE, TRUE),
      Error("ErrTransport", 0, FALSE, FALSE, FALSE) }

isTemporary(e) == e.temporary

isTimeout(e) == e.timeout

\* ------------------------------------------------------------ responses
Bodies == {"alpha", "alpha\nbravo"}

Response(status, exc, body, io) ==
    [status |-> status, exc |-> exc, body |-> body, io |-> io, err |-> Nil]

NoResponse(e) ==
    [status |-> 0, exc |-> "", body |-> "", io |-> "ok", err |-> e]

\* http.StatusText
StatusText(code) ==
    CASE code = StatusOK -> "OK"
      [] code = StatusMethodNotAllowed -> "Method Not Allowed"
      [] code = StatusRequestURITooLong -> "Request URI Too Long"
      [] code = StatusServiceUnavailable -> "Service Unavailable"
      [] OTHER -> ""

\* What the history keeps of a result of Do, and whether the executor read
\* the body of the response to its end and closed it.
Received(r, closed) ==
    [status |-> r.status, exc |-> r.exc, body |-> r.body, err |-> r.err,
     closed |-> closed]

\* What one call of Doer.Do can give back.
DoResults ==
    { Response(StatusOK, "", b, "ok") : b \in Bodies \cup {""} }
    \cup { Response(StatusOK, "", "alpha", x) : x \in {"readErr", "closeErr"} }
    \cup { Response(StatusOK, "boom", b, "ok") : b \in Bodies }
    \cup { Response(s, "", "alpha", "ok") :
             s \in {StatusMethodNotAllowed, StatusRequestURITooLong,
                    StatusServiceUnavailable} }
    \cup { Response(StatusServiceUnavailable, "", "", "ok") }
    \cup { NoResponse(e) : e \in TransportErrors }

\* ---------------------------------------------------------------- state
VARIABLES
    version,        \* 1: query/queryServer, 2: QueryCallback/query
    retryCount,     \* Client.retryCount
    retryPause,     \* Client.retryPause
    retryCallback,  \* Client.retryCallback: "default" (Config.RetryCallback
                    \* left nil), "all" or "none" (a caller's predicate)
    values,         \* roundRobinStrings.values
    i,              \* roundRobinStrings.i
    queries,        \* number of queries started
    ctxErr,         \* ctx.Err(): "none", "Canceled" or "DeadlineExceeded"
    ch,             \* the completion channel: "open" or "closed"
    err,            \* the error variable the worker shares with the caller
    buf,            \* the payload the worker shares with the caller
    attempts,       \* the worker's retry counter
    wpc,            \* where the worker is
    cpc,            \* where the caller is
    ret,            \* what the caller returned
    uriLen,         \* len(uri) of the GET form of the query
    server,         \* the address the current attempt goes to
    badRequest,     \* the methods http.NewRequest fails for
    method,         \* attempt executor: method of the next request
    loopI,          \* queryServer: loop counter
    err2,           \* queryServer: error kept for the final return
    wasGetTried,    \* query: GET was used in this attempt
    wasPutTried,    \* query: PUT was used in this attempt
    prevErr,        \* query: error kept for the final return
    rv,             \* what the attempt executor returned
    nAttempts,      \* history: attempts started by this query
    nextCalls,      \* history: calls of servers.Next() by this query
    rotation,       \* history: the cursor at the query's start and the
                    \* servers its attempts were addressed to
    sent,           \* history: requests of this attempt handed to Do
    recv,           \* history: what Do gave back in this attempt
    pauses,         \* history: retry pauses of this query
    pauseCancel,    \* history: nextCalls when ctx was cancelled in a pause
    consulted,      \* history: the calls of c.retryCallback by this query
    call,           \* selector: the frame of each goroutine's call of Next
    calls,          \* selector history: calls of Next started
    contended,      \* selector history: two calls of Next have overlapped
    committed,      \* selector history: calls of Next whose CAS swapped
    last,           \* selector history: the goroutine of the latest call,
                    \* kept while no two calls have overlapped
    probe,          \* retry predicate: an error, a server count, the answer
    config,         \* the Config the caller hands to NewClient
    made,           \* what NewClient returned
    stats           \* the statistics counters

clientVars == <<version, retryCount, retryPause, retryCallback, values>>
queryVars == <<ctxErr, ch, err, buf, attempts, wpc, cpc, ret, uriLen>>
queryFrame == <<ctxErr, ch, err, buf, attempts, cpc, ret, uriLen>>
execVars == <<server, badRequest, method, loopI, err2, wasGetTried,
              wasPutTried, prevErr, rv>>
histVars == <<nAttempts, nextCalls, rotation, sent, recv, pauses, pauseCancel,
              consulted>>
selectorVars == <<call, calls, contended, committed, last>>
\* What the query engine's actions never touch.
asideVars == <<selectorVars, probe, config, made>>
\* What the query engine under src/ never touches.
idleVars == <<asideVars, stats>>
vars == <<clientVars, i, queries, queryVars, execVars, histVars, idleVars>>

NoReturn == [val |-> "", err |-> Nil, via |-> "none", ctx |-> "none"]
NoResult == [buf |-> "", err |-> Nil]

Pool(n) == [k \in 1..n |-> <<"server", k>>]

\* The goroutines that call Next, and the frame of a call: where it is, its
\* locals i, ni and j, the string it returned and how ("fast": the single
\* value case, "cas": the CAS succeeded, "giveup": the return after the loop);
\* for the history, the cursor when the call began and the number of other
\* calls that overlapped it.
Callers == 1..MaxCallers

NoCall == [pc |-> "idle", i |-> 0, ni |-> 0, j |-> 0, out |-> <<>>,
           how |-> "none", start |-> 0, overlap |-> 0, nth |-> 0]

\* A Config: the caller's Servers slice, RetryCount, RetryPause (in units of
\* the model's pause) and RetryCallback ("nil" when left unset).
Config(servers, count, pause, callback) ==
    [Servers |-> servers, RetryCount |-> count, RetryPause |-> pause,
     RetryCallback |-> callback]

\* The result of NewClient: whether it was called, whether it returned a
\* client (err: which check refused the Config), and whether the pool of
\* the client shares its array with the caller's slice.
NotMade == [called |-> FALSE, ok |-> FALSE, err |-> "none", shared |-> FALSE]

Made == [called |-> TRUE, ok |-> TRUE, err |-> "none", shared |-> FALSE]

Counters == {"NoErr", "ErrContextDone", "ErrRangeException",
             "ErrStatusNotOK", "ErrUnknown"}

NoStats == [c \in Counters |-> 0]

\* A function under examination: the error handed to the default retry
\* predicate and its answer; the lines of a body, whether a newline follows
\* the last one, and what the body is split into.
NoSplit == [response |-> <<>>, queryCtx |-> <<>>]

NoProbe == [e |-> Nil, asked |-> FALSE, out |-> FALSE,
            lines |-> <<>>, trailing |-> FALSE, split |-> NoSplit]

\* The predicate has not been called: how often it was, and whether ever
\* after a successful attempt, with the retry budget used up, or while nil.
NotConsulted ==
    [n |-> 0, onSuccess |-> FALSE, atBudget |-> FALSE, nilCalled |-> FALSE]

\* No query has started.
NoRotation == [p |-> 0, targets |-> {}]

\* The lengths of the GET uri the model tries: at and just over the threshold.
URILens == {defaultQueryLengthThreshold, defaultQueryLengthThreshold + 1}

\* ------------------------------------------------------- server selector
NextCursorStuck == i

\* roundRobinStrings.Next, without contention: the first CAS succeeds.
NextValue == IF Len(values) = 1 THEN values[1] ELSE values[i + 1]

NextCursor == IF Len(values) = 1 THEN i ELSE (i + 1) % Len(values)

\* ---------------------------------------------------------- retry policy
makeRetryCallbackAll(count, e) == TRUE

makeRetryCallbackAnyCount(count, e) ==
    IF isTemporary(e) \/ isTimeout(e) THEN TRUE
    ELSE IF e.dns THEN count > 0
    ELSE FALSE

makeRetryCallback(count, e) ==
    IF isTemporary(e) \/ isTimeout(e) THEN TRUE
    ELSE IF e.dns THEN count > 1
    ELSE FALSE

\* c.retryCallback(err)
RetryCallback(e) ==
    CASE retryCallback = "default" -> makeRetryCallback(Len(values), e)
      [] retryCallback = "all" -> TRUE
      [] OTHER -> FALSE

LastAttemptOffByOne(e) ==
    attempts = retryCount + 1 \/ RetryCallback(e) = FALSE

\* The worker's test that ends the retry loop after a failed attempt.
LastAttempt(e) == attempts = retryCount \/ RetryCallback(e) = FALSE

\* ----------------------------------------------------- attempt executor
FirstMethodAtThreshold(len) ==
    IF len >= defaultQueryLengthThreshold THEN MethodPut ELSE MethodGet

FirstMethod(len) ==
    IF len > defaultQueryLengthThreshold THEN MethodPut ELSE MethodGet

OtherMethodSame(m) == m

\* method = http.MethodPut // try again using PUT, and the reverse
OtherMethod(m) == IF m = MethodGet THEN MethodPut ELSE MethodGet

\* The method a negotiation status switches to (any other status: no switch).
FallbackMethod(status, m) ==
    IF status = StatusRequestURITooLong THEN MethodPut
    ELSE IF status = StatusMethodNotAllowed THEN MethodGet
    ELSE m

\* readAndClose(response.Body)
readAndClose(r) ==
    IF r.io = "readErr" THEN [buf |-> "", err |-> ErrRead]
    ELSE IF r.io = "closeErr" THEN [buf |-> "", err |-> ErrClose]
    ELSE [buf |-> r.body, err |-> Nil]

\* bytesFromReadCloser(response.Body)
bytesFromReadCloser(r) ==
    IF r.io = "readErr" THEN [buf |-> "", err |-> ErrRead]
    ELSE IF r.io = "closeErr" THEN [buf |-> "", err |-> ErrClose]
    ELSE [buf |-> r.body, err |-> Nil]

StatusNotOKFromLine(r) ==
    ErrStatusNotOK(StatusText(r.status), r.status)

\* The error of the default case of the status switch of query: Status is
\* the text of the body when the body was read and is not empty.
StatusNotOKFromBody(r) ==
    IF bytesFromReadCloser(r).err = Nil /\ bytesFromReadCloser(r).buf # ""
    THEN ErrStatusNotOK(bytesFromReadCloser(r).buf, r.status)
    ELSE ErrStatusNotOK(StatusText(r.status), r.status)

\* callback(response.Body) then discard(response.Body)
callbackAndDiscard(r) ==
    IF r.io = "readErr" THEN [buf |-> "", err |-> ErrRead]
    ELSE IF r.io = "closeErr" THEN [buf |-> r.body, err |-> ErrClose]
    ELSE [buf |-> r.body, err |-> Nil]

\* ------------------------------------------------------------------ Init
\* No query has been made.
Quiescent ==
    /\ queries = 0
    /\ ctxErr = "none"
    /\ ch = "open"
    /\ err = Nil
    /\ buf = ""
    /\ attempts = 0
    /\ wpc = "idle"
    /\ cpc = "idle"
    /\ ret = NoReturn
    /\ uriLen = defaultQueryLengthThreshold
    /\ server = <<"server", 1>>
    /\ badRequest = {}
    /\ method = MethodGet
    /\ loopI = 0
    /\ err2 = Nil
    /\ wasGetTried = FALSE
    /\ wasPutTried = FALSE
    /\ prevErr = Nil
    /\ rv = NoResult
    /\ nAttempts = 0
    /\ nextCalls = 0
    /\ rotation = NoRotation
    /\ sent = <<>>
    /\ recv = <<>>
    /\ pauses = 0
    /\ pauseCancel = -1
    /\ consulted = NotConsulted

\* No goroutine is in Next.
SelectorIdle ==
    /\ call = [p \in Callers |-> NoCall]
    /\ calls = 0
    /\ contended = FALSE
    /\ committed = 0
    /\ last = 1

Init ==
    /\ version \in {1, 2}
    /\ retryCount \in 0..MaxRetryCount
    /\ retryPause \in {0, 1}
    /\ retryCallback \in {"default", "all", "none"}
    /\ values \in {Pool(n) : n \in 1..MaxServers}
    /\ i = 0
    /\ Quiescent
    /\ SelectorIdle
    /\ probe = NoProbe
    /\ config = Config(values, retryCount, retryPause, "nil")
    /\ made = Made
    /\ stats = NoStats

\* --------------------------------------------------------------- actions
\* Query / QueryCtx / QueryBytesCtx / QueryCallback up to the final select:
\* make the channel, spawn the worker.
StartQuery ==
    /\ made.ok
    /\ cpc = "idle" \/ (cpc = "returned" /\ wpc = "exited")
    /\ queries < MaxQueries
    /\ queries' = queries + 1
    /\ uriLen' \in URILens
    /\ ctxErr' = "none"
    /\ ch' = "open"
    /\ err' = Nil
    /\ buf' = ""
    /\ attempts' = 0
    /\ wpc' = "begin"
    /\ cpc' = "select"
    /\ ret' = NoReturn
    /\ rv' = NoResult
    /\ nAttempts' = 0
    /\ nextCalls' = 0
    /\ rotation' = [p |-> i, targets |-> {}]
    /\ sent' = <<>>
    /\ recv' = <<>>
    /\ pauses' = 0
    /\ pauseCancel' = -1
    /\ consulted' = NotConsulted
    /\ server' = <<"server", 1>>
    /\ badRequest' = {}
    /\ method' = MethodGet
    /\ loopI' = 0
    /\ err2' = Nil
    /\ wasGetTried' = FALSE
    /\ wasPutTried' = FALSE
    /\ prevErr' = Nil
    /\ UNCHANGED <<clientVars, idleVars, i>>

\* The caller's context is cancelled or its deadline passes.
Cancel ==
    /\ cpc # "idle"
    /\ ~(cpc = "returned" /\ wpc = "exited")
    /\ ctxErr = "none"
    /\ ctxErr' \in {"Canceled", "DeadlineExceeded"}
    /\ pauseCancel' = IF wpc = "sleep" THEN nextCalls ELSE pauseCancel
    /\ UNCHANGED <<clientVars, idleVars,
                   i, queries, ch, err, buf, attempts, wpc, cpc,
                   ret, uriLen, execVars, nAttempts, nextCalls, rotation, sent, recv,
                   consulted,
                   pauses>>

\* The worker calls c.servers.Next() and enters the attempt executor, which
\* escapes the expression and picks the first method.  The GET uri and the PUT
\* endpoint hold the same server address, so http.NewRequest takes both or
\* refuses both.
BeginAttempt ==
    /\ wpc = "begin"
    /\ server' = NextValue
    /\ i' = NextCursor
    /\ badRequest' \in {{}, {MethodGet, MethodPut}}
    /\ method' = FirstMethod(uriLen)
    /\ loopI' = 0
    /\ err2' = Nil
    /\ wasGetTried' = FALSE
    /\ wasPutTried' = FALSE
    /\ prevErr' = Nil
    /\ rv' = NoResult
    /\ nAttempts' = nAttempts + 1
    /\ nextCalls' = nextCalls + 1
    /\ rotation' = [rotation EXCEPT !.targets = @ \cup {NextValue}]
    /\ sent' = <<>>
    /\ recv' = <<>>
    /\ wpc' = "loop"
    /\ UNCHANGED <<clientVars, idleVars,
                   queries, ctxErr, ch, err, buf, attempts, cpc,
                   ret, uriLen, pauses, pauseCancel, consulted>>

ReturnSwallowed(r) ==
    /\ rv' = [r EXCEPT !.err = Nil]
    /\ wpc' = "ret"

\* The attempt executor returns result r to the retry loop.
Return(r) ==
    /\ rv' = r
    /\ wpc' = "ret"

SendWithoutWaiting ==
    /\ sent' = Append(sent, [method |-> method, ctx |-> ctxErr])
    /\ wpc' = "loop"

\* The attempt executor hands a request to httpClient.Do and waits for Do to
\* return.
Send ==
    /\ sent' = Append(sent, [method |-> method, ctx |-> ctxErr])
    /\ wpc' = "inflight"

execFrame == UNCHANGED <<clientVars, idleVars, i, queries, queryFrame, server,
                         badRequest, nAttempts, nextCalls, rotation, pauses,
                         pauseCancel, consulted>>

\* queryServer, one pass of its loop up to the call of Do: the loop test, the
\* check of ctx.Done(), http.NewRequest.
queryServerLoop ==
    /\ version = 1
    /\ wpc = "loop"
    /\ IF loopI >= 2
       THEN /\ Return([buf |-> "", err |-> err2])
            /\ UNCHANGED <<method, loopI, err2, sent>>
       ELSE IF ctxErr # "none"
       THEN /\ Return([buf |-> "", err |-> CtxErr(ctxErr)])
            /\ UNCHANGED <<method, loopI, err2, sent>>
       ELSE IF method \in badRequest
       THEN /\ err2' = IF err2 = Nil THEN ErrNewRequest ELSE err2
            /\ method' = OtherMethod(method)
            /\ loopI' = loopI + 1
            /\ UNCHANGED <<wpc, rv, sent>>
       ELSE /\ Send
            /\ UNCHANGED <<method, loopI, err2, rv>>
    /\ UNCHANGED <<wasGetTried, wasPutTried, prevErr, recv>>
    /\ execFrame

\* Whether queryServer reads the body of response r to its end and closes
\* it: readAndClose on the normal exit path is its only use of the body.
BodyRead(r) == r.err = Nil /\ r.status = StatusOK /\ r.exc = ""

\* queryServer, from the return of Do to the end of the loop body.
queryServerResponse ==
    /\ version = 1
    /\ wpc = "inflight"
    /\ \E r \in DoResults :
         /\ recv' = Append(recv, Received(r, BodyRead(r)))
         /\ IF r.err # Nil
            THEN /\ Return([buf |-> "", err |-> r.err])
                 /\ UNCHANGED <<method, loopI, err2>>
            ELSE IF r.status = StatusOK
            THEN /\ IF r.exc # ""
                    THEN Return([buf |-> "",
                                 err |-> ErrRangeException(r.exc, r.body)])
                    ELSE Return(readAndClose(r))
                 /\ UNCHANGED <<method, loopI, err2>>
            ELSE /\ method' = FallbackMethod(r.status, method)
                 /\ err2' = StatusNotOKFromLine(r)
                 /\ loopI' = loopI + 1
                 /\ wpc' = "loop"
                 /\ UNCHANGED rv
    /\ UNCHANGED <<wasGetTried, wasPutTried, prevErr, sent>>
    /\ execFrame

\* query, one pass of its loop up to the call of Do: the was-tried test of
\* the method, http.NewRequest.
queryLoop ==
    /\ version = 2
    /\ wpc = "loop"
    /\ IF (method = MethodGet /\ wasGetTried) \/ (method = MethodPut /\ wasPutTried)
       THEN /\ Return([buf |-> "", err |-> prevErr])
            /\ UNCHANGED <<method, wasGetTried, wasPutTried, prevErr, sent>>
       ELSE /\ wasGetTried' = (wasGetTried \/ method = MethodGet)
            /\ wasPutTried' = (wasPutTried \/ method = MethodPut)
            /\ IF method \in badRequest
               THEN /\ method' = OtherMethod(method)
                    /\ prevErr' = ErrNewRequest
                    /\ UNCHANGED <<wpc, rv, sent>>
               ELSE /\ Send
                    /\ UNCHANGED <<method, prevErr, rv>>
    /\ UNCHANGED <<loopI, err2, recv>>
    /\ execFrame

\* The negotiation status says to use a method this attempt already used.
AlreadyTried(status) ==
    \/ status = StatusRequestURITooLong /\ wasPutTried
    \/ status = StatusMethodNotAllowed /\ wasGetTried

IsNegotiation(status) ==
    status \in {StatusRequestURITooLong, StatusMethodNotAllowed}

\* Whether query reads the body of response r to its end and closes it:
\* callback and discard on the normal exit path, bytesFromReadCloser in the
\* default case of the status switch, discard before another request.
BodyClosed(r) ==
    IF r.status = StatusOK THEN r.exc = ""
    ELSE IF IsNegotiation(r.status) THEN ~AlreadyTried(r.status)
    ELSE TRUE

\* query, from the return of Do to the end of the loop body.  The err that
\* line 851 copies to prevErr is the one declared with response at line 783,
\* which is nil once that line's test has passed.
queryResponse ==
    /\ version = 2
    /\ wpc = "inflight"
    /\ \E r \in DoResults :
         /\ recv' = Append(recv, Received(r, BodyClosed(r)))
         /\ IF r.err # Nil
            THEN /\ Return([buf |-> "", err |-> r.err])
                 /\ UNCHANGED <<method, prevErr>>
            ELSE IF r.status = StatusOK
            THEN /\ IF r.exc # ""
                    THEN Return([buf |-> "",
                                 err |-> ErrRangeException(r.exc, r.body)])
                    ELSE Return(callbackAndDiscard(r))
                 /\ UNCHANGED <<method, prevErr>>
            ELSE IF ~IsNegotiation(r.status)
            THEN /\ Return([buf |-> "", err |-> StatusNotOKFromBody(r)])
                 /\ UNCHANGED <<method, prevErr>>
            ELSE IF AlreadyTried(r.status)
            THEN /\ Return([buf |-> "", err |-> prevErr])
                 /\ UNCHANGED <<method, prevErr>>
            ELSE IF ctxErr # "none"
            THEN /\ Return([buf |-> "", err |-> CtxErr(ctxErr)])
                 /\ method' = FallbackMethod(r.status, method)
                 /\ UNCHANGED prevErr
            ELSE /\ method' = FallbackMethod(r.status, method)
                 /\ prevErr' = r.err
                 /\ wpc' = "loop"
                 /\ UNCHANGED rv
    /\ UNCHANGED <<loopI, err2, wasGetTried, wasPutTried, sent>>
    /\ execFrame

\* The attempt executor's locals and the attempt's history end with it.
ExecutorGone ==
    /\ server' = <<"server", 1>>
    /\ badRequest' = {}
    /\ method' = MethodGet
    /\ loopI' = 0
    /\ err2' = Nil
    /\ wasGetTried' = FALSE
    /\ wasPutTried' = FALSE
    /\ prevErr' = Nil
    /\ rv' = NoResult
    /\ sent' = <<>>
    /\ recv' = <<>>

ConsultsOnEveryError(e) == e # Nil

\* Whether the worker's test reaches c.retryCallback(err): the operands
\* before it are err == nil and attempts == c.retryCount.
Consults(e) == e # Nil /\ attempts # retryCount

\* The call of c.retryCallback(err), recorded.
Consulting(e) ==
    [n |-> consulted.n + 1,
     onSuccess |-> consulted.onSuccess \/ e = Nil,
     atBudget |-> consulted.atBudget \/ attempts = retryCount,
     nilCalled |-> consulted.nilCalled \/ retryCallback = "nil"]

ShouldPauseAlways == TRUE

\* attempts > 0 && c.retryPause > 0, at the top of the loop after attempts++
ShouldPause == retryPause > 0

WorkerResultGoesOn ==
    /\ wpc = "ret"
    /\ err' = rv.err
    /\ consulted' = IF Consults(rv.err) THEN Consulting(rv.err) ELSE consulted
    /\ buf' = IF version = 2 /\ rv.buf = "" THEN buf ELSE rv.buf
    /\ IF rv.err = Nil \/ LastAttempt(rv.err)
       THEN /\ ch' = "closed"
            /\ wpc' = "begin"
            /\ UNCHANGED <<attempts, pauses>>
       ELSE /\ attempts' = attempts + 1
            /\ wpc' = IF ShouldPause THEN "sleep" ELSE "begin"
            /\ pauses' = IF ShouldPause THEN pauses + 1 ELSE pauses
            /\ UNCHANGED ch
    /\ ExecutorGone
    /\ UNCHANGED <<clientVars, idleVars, i, queries, ctxErr, cpc, ret, uriLen,
                   nAttempts, nextCalls, rotation, pauseCancel>>

\* The retry loop after the attempt executor returned: store the result in
\* the shared variables, then close the channel and exit, or count a retry.
WorkerResult ==
    /\ wpc = "ret"
    /\ err' = rv.err
    /\ consulted' = IF Consults(rv.err) THEN Consulting(rv.err) ELSE consulted
    /\ buf' = IF version = 2 /\ rv.buf = "" THEN buf ELSE rv.buf
    /\ IF rv.err = Nil \/ LastAttempt(rv.err)
       THEN /\ ch' = "closed"
            /\ wpc' = "exited"
            /\ UNCHANGED <<attempts, pauses>>
       ELSE /\ attempts' = attempts + 1
            /\ wpc' = IF ShouldPause THEN "sleep" ELSE "begin"
            /\ pauses' = IF ShouldPause THEN pauses + 1 ELSE pauses
            /\ UNCHANGED ch
    /\ ExecutorGone
    /\ UNCHANGED <<clientVars, idleVars, i, queries, ctxErr, cpc, ret, uriLen,
                   nAttempts, nextCalls, rotation, pauseCancel>>

\* time.Sleep(c.retryPause) returns; QueryCallback then looks at ctx.Done()
\* and exits without closing the channel when the context is done.
WorkerWake ==
    /\ wpc = "sleep"
    /\ wpc' = IF version = 2 /\ ctxErr # "none" THEN "exited" ELSE "begin"
    /\ UNCHANGED <<clientVars, idleVars,
                   i, queries, ctxErr, ch, err, buf, attempts,
                   cpc, ret, uriLen, execVars, histVars>>

callerFrame == UNCHANGED <<clientVars, asideVars,
                           i, queries, ctxErr, ch, err, buf,
                           attempts, wpc, uriLen, execVars, histVars>>

\* return nil, ctx.Err()
DoneReturn ==
    [val |-> "", err |-> CtxErr(ctxErr), via |-> "done", ctx |-> ctxErr]

ResultReturnKeepsPayload ==
    [val |-> buf, err |-> err, via |-> "ch", ctx |-> ctxErr]

ResultReturnWrapped ==
    [val |-> IF err = Nil THEN buf ELSE "",
     err |-> IF err = Nil THEN Nil ELSE [err EXCEPT !.kind = "wrapped"],
     via |-> "ch", ctx |-> ctxErr]

\* The payload with a nil error, or nil with the worker's error.
ResultReturn ==
    [val |-> IF err = Nil THEN buf ELSE "", err |-> err, via |-> "ch",
     ctx |-> ctxErr]

selectDoneAfterWorker ==
    /\ cpc = "select"
    /\ ctxErr # "none"
    /\ wpc = "exited"
    /\ ret' = DoneReturn
    /\ cpc' = "returned"
    /\ callerFrame

\* The caller's select takes the ctx.Done() case.
selectDone ==
    /\ cpc = "select"
    /\ ctxErr # "none"
    /\ ret' = DoneReturn
    /\ cpc' = "returned"
    /\ callerFrame

selectResultEarly ==
    /\ cpc = "select"
    /\ ret' = ResultReturn
    /\ cpc' = "returned"
    /\ callerFrame

selectResultLate ==
    /\ cpc = "select" \/ (cpc = "returned" /\ ret.via = "done")
    /\ ch = "closed"
    /\ ret' = ResultReturn
    /\ cpc' = "returned"
    /\ callerFrame

\* The caller's select takes the case of the closed channel.
selectResult ==
    /\ cpc = "select"
    /\ ch = "closed"
    /\ ret' = ResultReturn
    /\ cpc' = "returned"
    /\ callerFrame

\* The two cases in the client under src/, which keeps no statistics.
CallerDone == selectDone /\ UNCHANGED stats

CallerResult == selectResult /\ UNCHANGED stats

Next ==
    \/ StartQuery
    \/ Cancel
    \/ BeginAttempt
    \/ queryServerLoop
    \/ queryServerResponse
    \/ queryLoop
    \/ queryResponse
    \/ WorkerResult
    \/ WorkerWake
    \/ CallerDone
    \/ CallerResult

Spec == Init /\ [][Next]_vars

\* NewMockClient: one dummy server, no retry, no pause, and the retry
\* predicate left nil.
InitMock ==
    /\ version \in {1, 2}
    /\ retryCount = 0
    /\ retryPause = 0
    /\ retryCallback = "nil"
    /\ values = Pool(1)
    /\ i = 0
    /\ Quiescent
    /\ SelectorIdle
    /\ probe = NoProbe
    /\ config = Config(values, retryCount, retryPause, "nil")
    /\ made = Made
    /\ stats = NoStats

\* The clients of NewClient and of NewMockClient.
SpecAnyClient == (Init \/ InitMock) /\ [][Next]_vars

\* The worker goroutine's own steps, the steps of the transport, and the
\* steps of the calling goroutine.
Worker ==
    \/ BeginAttempt
    \/ queryServerLoop
    \/ queryLoop
    \/ WorkerResult
    \/ WorkerWake

Transport == queryServerResponse \/ queryResponse

Caller == CallerDone \/ CallerResult

\* The Go scheduler runs every runnable goroutine and time.Sleep ends; each
\* call of Do returns unless the context is cancelled first.
FairSpec ==
    /\ Spec
    /\ WF_vars(Worker)
    /\ WF_vars(Caller)
    /\ WF_vars(Transport \/ Cancel)

\* ------------------------------------------------- the life of a client
\* From the Config in the caller's hands: NewClient, the caller's later
\* writes to its own Servers slice, and the queries of the client made.
Configs ==
    { Config(servers, count, pause, callback) :
        servers \in {<<>>, Pool(1), Pool(2)},
        count \in {-1, 0, 1},
        pause \in {-1, 0, 1},
        callback \in {"nil", "all"} }

newRoundRobinStringsAlias(someStrings) ==
    [ok |-> Len(someStrings) # 0, values |-> someStrings, shared |-> TRUE]

\* newRoundRobinStrings: an error for an empty slice, else a structure whose
\* values are a copy of the slice in an array of its own.
newRoundRobinStrings(someStrings) ==
    [ok |-> Len(someStrings) # 0, values |-> someStrings, shared |-> FALSE]

ConfigErrorNoPauseCheck(cfg) ==
    IF cfg.RetryCount < 0 THEN "RetryCount"
    ELSE IF ~newRoundRobinStrings(cfg.Servers).ok THEN "Servers"
    ELSE "none"

\* The checks of NewClient in their order: which one refuses cfg.
ConfigError(cfg) ==
    IF cfg.RetryCount < 0 THEN "RetryCount"
    ELSE IF cfg.RetryPause < 0 THEN "RetryPause"
    ELSE IF ~newRoundRobinStrings(cfg.Servers).ok THEN "Servers"
    ELSE "none"

InitClient ==
    /\ version \in {1, 2}
    /\ config \in Configs
    /\ made = NotMade
    /\ retryCount = 0
    /\ retryPause = 0
    /\ retryCallback = "none"
    /\ values = <<>>
    /\ i = 0
    /\ Quiescent
    /\ SelectorIdle
    /\ probe = NoProbe
    /\ stats = NoStats

lifeFrame == UNCHANGED <<version, i, queries, queryVars, execVars, histVars,
                         selectorVars, probe, stats>>

\* NewClient(config)
NewClient ==
    /\ ~made.called
    /\ made' = [called |-> TRUE, ok |-> ConfigError(config) = "none",
                err |-> ConfigError(config),
                shared |-> newRoundRobinStrings(config.Servers).shared]
    /\ IF ConfigError(config) = "none"
       THEN /\ retryCount' = config.RetryCount
            /\ retryPause' = config.RetryPause
            /\ retryCallback' = IF config.RetryCallback = "nil"
                                THEN "default" ELSE config.RetryCallback
            /\ values' = newRoundRobinStrings(config.Servers).values
       ELSE UNCHANGED <<retryCount, retryPause, retryCallback, values>>
    /\ UNCHANGED config
    /\ lifeFrame

\* The address the caller writes over the first element of its slice.
Elsewhere == <<"server", 0>>

\* Between its calls the caller writes to its Servers slice; a pool that
\* shared the array of the slice would change with it.
MutateServers ==
    /\ made.called
    /\ cpc \in {"idle", "returned"}
    /\ config.Servers # <<>>
    /\ config.Servers[1] # Elsewhere
    /\ config' = [config EXCEPT !.Servers[1] = Elsewhere]
    /\ values' = IF made.ok /\ made.shared
                 THEN [values EXCEPT ![1] = Elsewhere] ELSE values
    /\ UNCHANGED <<retryCount, retryPause, retryCallback, made>>
    /\ lifeFrame

NextClient ==
    \/ NewClient
    \/ MutateServers
    \/ StartQuery
    \/ Cancel
    \/ BeginAttempt
    \/ queryServerLoop
    \/ queryServerResponse
    \/ queryLoop
    \/ queryResponse
    \/ WorkerResult
    \/ WorkerWake
    \/ CallerDone
    \/ CallerResult

SpecClient == InitClient /\ [][NextClient]_vars

\* ------------------------------------------ the selector under contention
\* roundRobinStrings.Next step by step, called by the goroutines of Callers:
\* the atomic load and the compare-and-swap of one goroutine are two steps,
\* and the steps of the others come between them.
casRounds == 4

AdvanceTwo(c, l) == (c + 2) % l

AdvanceNoWrap(c, l) == c + 1

\* ni = (i + 1) % l; i is below l, a slice length, so the uint32 sum i + 1
\* does not wrap.
Advance(c, l) == (c + 1) % l

MoreRoundsThree(j) == j < casRounds - 1

MoreRoundsAlways(j) == TRUE

\* j < 4, the test of the loop
MoreRounds(j) == j < casRounds

ChosenNext(c) ==
    IF c.ni < Len(values) THEN values[c.ni + 1] ELSE <<"panic">>

\* rr.values[i]; an index past the end of the slice panics.
Chosen(c) == IF c.i < Len(values) THEN values[c.i + 1] ELSE <<"panic">>

FailedCASStores(c) == c.ni

\* atomic.CompareAndSwapUint32 returned false: rr.i is as it was.
FailedCAS(c) == i

InCall(p) == call[p].pc \in {"load", "cas"}

selectorFrame == UNCHANGED <<clientVars, queries, queryVars, execVars,
                             histVars, probe, config, made, stats>>

InitSelector ==
    /\ version = 2
    /\ retryCount = 0
    /\ retryPause = 0
    /\ retryCallback = "default"
    /\ values \in {Pool(n) : n \in 1..MaxValues}
    /\ i = 0
    /\ Quiescent
    /\ SelectorIdle
    /\ probe = NoProbe
    /\ config = Config(values, retryCount, retryPause, "nil")
    /\ made = Made
    /\ stats = NoStats

\* Goroutine p calls Next: l is taken, and the single value case returns.
NextBegin(p) ==
    /\ call[p].pc \in {"idle", "done"}
    /\ calls < MaxCalls
    /\ calls' = calls + 1
    /\ LET others == {q \in Callers \ {p} : InCall(q)}
           mine == [NoCall EXCEPT !.start = i,
                                  !.overlap = Cardinality(others)]
       IN /\ contended' = (contended \/ others # {})
          /\ last' = IF contended' THEN 1 ELSE p
          /\ call' = [q \in Callers |->
                IF q = p
                THEN IF Len(values) = 1
                     THEN [mine EXCEPT !.pc = "done", !.out = values[1],
                                       !.how = "fast"]
                     ELSE [mine EXCEPT !.pc = "load"]
                ELSE IF q \in others
                THEN [call[q] EXCEPT !.overlap = @ + 1]
                ELSE call[q]]
    /\ UNCHANGED <<i, committed>>
    /\ selectorFrame

\* i = atomic.LoadUint32(&rr.i); ni = (i + 1) % l
NextLoad(p) ==
    /\ call[p].pc = "load"
    /\ call' = [call EXCEPT ![p].i = i,
                            ![p].ni = Advance(i, Len(values)),
                            ![p].pc = "cas"]
    /\ UNCHANGED <<i, calls, contended, committed, last>>
    /\ selectorFrame

\* atomic.CompareAndSwapUint32(&rr.i, i, ni): return when it swapped, else
\* j++ and the loop test, and after the loop the return of rr.values[i].
NextCAS(p) ==
    /\ call[p].pc = "cas"
    /\ IF i = call[p].i
       THEN /\ i' = call[p].ni
            /\ committed' = committed + 1
            /\ call' = [call EXCEPT ![p].pc = "done", ![p].ni = 0,
                                    ![p].out = Chosen(call[p]),
                                    ![p].how = "cas",
                                    ![p].nth = committed + 1]
       ELSE /\ i' = FailedCAS(call[p])
            /\ UNCHANGED committed
            /\ IF MoreRounds(call[p].j + 1)
               THEN call' = [call EXCEPT ![p].j = @ + 1, ![p].pc = "load"]
               ELSE call' = [call EXCEPT ![p].j = @ + 1, ![p].pc = "done",
                                         ![p].ni = 0,
                                         ![p].out = Chosen(call[p]),
                                         ![p].how = "giveup"]
    /\ UNCHANGED <<calls, contended, last>>
    /\ selectorFrame

NextSelector ==
    \E p \in Callers :
        \/ NextBegin(p)
        \/ NextLoad(p)
        \/ NextCAS(p)

SpecSelector == InitSelector /\ [][NextSelector]_vars

\* ----------------------------------------------- the default predicate
\* The errors the predicate is asked about: every answer the three tests of
\* makeRetryCallback can give, and the errors the client itself makes.
ProbeErrors ==
    { Error("ErrTransport", 0, t, o, d) :
        t \in BOOLEAN, o \in BOOLEAN, d \in BOOLEAN }
    \cup { ErrStatusNotOK(StatusText(s), s) :
             s \in {StatusMethodNotAllowed, StatusRequestURITooLong,
                    StatusServiceUnavailable} }
    \cup { ErrStatusNotOK(b, StatusServiceUnavailable) : b \in Bodies }
    \cup { ErrRangeException("boom", "alpha"), ErrNewRequest, ErrRead,
           ErrClose, CtxErr("Canceled"), CtxErr("DeadlineExceeded") }

\* NewClient with Config.RetryCallback nil and 1..MaxValues servers; an
\* error is about to be handed to the predicate it made.
InitPredicate ==
    /\ version = 2
    /\ retryCount = 0
    /\ retryPause = 0
    /\ retryCallback = "default"
    /\ values \in {Pool(n) : n \in 1..MaxValues}
    /\ i = 0
    /\ Quiescent
    /\ SelectorIdle
    /\ probe \in {[NoProbe EXCEPT !.e = e] : e \in ProbeErrors}
    /\ config = Config(values, retryCount, retryPause, "nil")
    /\ made = Made
    /\ stats = NoStats

\* c.retryCallback(err), the predicate being makeRetryCallback(len(Servers)).
AskPredicate ==
    /\ ~probe.asked
    /\ probe' = [probe EXCEPT !.asked = TRUE,
                              !.out = makeRetryCallback(Len(values), probe.e)]
    /\ UNCHANGED <<clientVars, i, queries, queryVars, execVars, histVars,
                   selectorVars, config, made, stats>>

NextPredicate == AskPredicate

SpecPredicate == InitPredicate /\ [][NextPredicate]_vars

\* ---------------------------------------------------------- statistics
\* The counter a returned error belongs to.
statsCounter(e) ==
    IF e = Nil THEN "NoErr"
    ELSE IF e.kind \in {"Canceled", "DeadlineExceeded"} THEN "ErrContextDone"
    ELSE IF e.kind = "ErrRangeException" THEN "ErrRangeException"
    ELSE IF e.kind = "ErrStatusNotOK" THEN "ErrStatusNotOK"
    ELSE "ErrUnknown"

CountedAtWorker(e) == stats' = [stats EXCEPT ![statsCounter(err)] = @ + 1]

\* One atomic add, to the counter of the error the call returns.
Counted(e) == stats' = [stats EXCEPT ![statsCounter(e)] = @ + 1]

CallerDoneCounted == selectDone /\ Counted(ret'.err)

CallerResultCounted == selectResult /\ Counted(ret'.err)

\* A client with one server and no retry pause, about to be queried.
InitStats ==
    /\ Init
    /\ Len(values) = 1
    /\ retryPause = 0

NextStats ==
    \/ StartQuery
    \/ Cancel
    \/ BeginAttempt
    \/ queryServerLoop
    \/ queryServerResponse
    \/ queryLoop
    \/ queryResponse
    \/ WorkerResult
    \/ CallerDoneCounted
    \/ CallerResultCounted

SpecStats == InitStats /\ [][NextStats]_vars

\* ------------------------------------------------------- line splitting
\* A byte string is a sequence of one-character strings; a line has no
\* newline in it.
Newline == "\n"

Words == {<<>>, <<"a">>, <<"b">>, <<"a", "b">>}

RECURSIVE Join(_)
\* The lines with a newline between each two.
Join(ls) ==
    IF ls = <<>> THEN <<>>
    ELSE IF Len(ls) = 1 THEN ls[1]
    ELSE ls[1] \o <<Newline>> \o Join(Tail(ls))

\* The body a server writes for these lines.
Body(ls, trailing) == IF trailing THEN Join(ls) \o <<Newline>> ELSE Join(ls)

RECURSIVE stringsSplit(_)
\* strings.Split(s, "\n"): one element more than there are newlines.
stringsSplit(s) ==
    IF \A k \in 1..Len(s) : s[k] # Newline THEN <<s>>
    ELSE LET k == CHOOSE k \in 1..Len(s) :
                    /\ s[k] = Newline
                    /\ \A j \in 1..(k - 1) : s[j] # Newline
         IN  <<SubSeq(s, 1, k - 1)>> \o stringsSplit(SubSeq(s, k + 1, Len(s)))

newResponseFromReaderAlways(body) == Append(body, Newline)

\* The buffer of the Response: the body, ended by a newline.
newResponseFromReader(body) ==
    IF Len(body) = 0 \/ body[Len(body)] # Newline
    THEN Append(body, Newline)
    ELSE body

\* Response.Split
Split(buffer) ==
    IF Len(buffer) = 1 THEN <<>>
    ELSE LET slice == stringsSplit(buffer)
         IN  SubSeq(slice, 1, Len(slice) - 1)

\* The callback QueryCtx hands to QueryCallback, on a fresh lines variable.
QueryCtxLines(body) ==
    IF Len(body) = 0 THEN <<>>
    ELSE LET trimmed == IF body[Len(body)] = Newline
                        THEN SubSeq(body, 1, Len(body) - 1)
                        ELSE body
         IN  IF Len(trimmed) = 0 THEN <<>> ELSE stringsSplit(trimmed)

\* A body of up to MaxLines lines, with or without a newline after the last,
\* is about to be split.
InitSplit ==
    /\ version = 2
    /\ retryCount = 0
    /\ retryPause = 0
    /\ retryCallback = "default"
    /\ values = Pool(1)
    /\ i = 0
    /\ Quiescent
    /\ SelectorIdle
    /\ \E n \in 0..MaxLines : \E ls \in [1..n -> Words] :
         \E t \in BOOLEAN :
           probe = [NoProbe EXCEPT !.lines = ls, !.trailing = t]
    /\ config = Config(values, retryCount, retryPause, "nil")
    /\ made = Made
    /\ stats = NoStats

\* The body is read and split, by Response and by QueryCtx.
AskSplit ==
    /\ ~probe.asked
    /\ LET body == Body(probe.lines, probe.trailing)
       IN  probe' = [probe EXCEPT
                       !.asked = TRUE,
                       !.split = [response |->
                                      Split(newResponseFromReader(body)),
                                  queryCtx |-> QueryCtxLines(body)]]
    /\ UNCHANGED <<clientVars, i, queries, queryVars, execVars, histVars,
                   selectorVars, config, made, stats>>

NextSplit == AskSplit

SpecSplit == InitSplit /\ [][NextSplit]_vars

\* ======================================================================
\* Properties
\* ======================================================================
StatusErrors == {"ErrStatusNotOK", "ErrRangeException"}

ContextErrors == {"Canceled", "DeadlineExceeded"}

\* Every result of Do in this attempt was a response with a status other
\* than 200.
AllNon200 ==
    /\ recv # <<>>
    /\ \A k \in 1..Len(recv) : recv[k].err = Nil /\ recv[k].status # StatusOK

Sent(m) == Cardinality({k \in 1..Len(sent) : sent[k].method = m})

\* C1: an attempt returns a nil error only if one of its responses had status
\* 200 and no RangeException header; an attempt whose responses were all
\* non-200 (the context not being cancelled) returns ErrStatusNotOK with the
\* last status code.
C1_AttemptOutcome ==
    wpc = "ret" =>
        /\ rv.err = Nil =>
             \E k \in 1..Len(recv) :
                 /\ recv[k].err = Nil
                 /\ recv[k].status = StatusOK
                 /\ recv[k].exc = ""
        /\ (AllNon200 /\ ctxErr = "none") =>
             /\ rv.err.kind = "ErrStatusNotOK"
             /\ rv.err.code = recv[Len(recv)].status

\* C2: within one attempt GET is sent at most once and PUT is sent at most
\* once, whatever the server answers.
C2_EachMethodOnce == Sent(MethodGet) <= 1 /\ Sent(MethodPut) <= 1

\* The first exchange of the attempt asks for the other method.
FirstAsksFallback ==
    /\ Len(recv) >= 1
    /\ recv[1].err = Nil
    /\ \/ sent[1].method = MethodGet /\ recv[1].status = StatusRequestURITooLong
       \/ sent[1].method = MethodPut /\ recv[1].status = StatusMethodNotAllowed

\* The error the classification rules give a result of Do (a 200 without
\* RangeException header is a success unless reading its body fails).
OutcomeMatches(r, e) ==
    IF r.err # Nil THEN e = r.err
    ELSE IF r.status # StatusOK
    THEN e.kind = "ErrStatusNotOK" /\ e.code = r.status
    ELSE IF r.exc # "" THEN e.kind = "ErrRangeException"
    ELSE e \in {Nil, ErrRead, ErrClose}

\* C3: when the first request of an attempt is a GET answered 414, or a PUT
\* answered 405, and the context is not cancelled, exactly one request with
\* the other method follows and its outcome is the outcome of the attempt.
C3_MethodFallback ==
    (wpc = "ret" /\ ctxErr = "none" /\ FirstAsksFallback) =>
        /\ Len(sent) = 2
        /\ Len(recv) = 2
        /\ sent[2].method = OtherMethod(sent[1].method)
        /\ OutcomeMatches(recv[2], rv.err)

\* C4 as stated: with a predicate that accepts every error, a worker that
\* ended after failed attempts only has made retryCount + 1 attempts.
C4_ExactlyBudgetPlusOne ==
    (wpc = "exited" /\ retryCallback = "all" /\ err # Nil) =>
        nAttempts = retryCount + 1

\* C4 amended: a query never makes more than retryCount + 1 attempts; with a
\* predicate that accepts every error, a worker that signalled completion
\* after failed attempts only has made exactly retryCount + 1 attempts (a
\* QueryCallback worker that finds the context done after a retry pause stops
\* earlier, without signalling); with retryCount = 0 a finished worker has
\* made exactly one attempt; and the caller of such a query gets an error.
C4_RetryBudget ==
    /\ nAttempts <= retryCount + 1
    /\ (wpc = "exited" /\ ch = "closed" /\ retryCallback = "all" /\ err # Nil) =>
          nAttempts = retryCount + 1
    /\ (wpc = "exited" /\ retryCount = 0) => nAttempts = 1
    /\ (wpc = "exited" /\ err # Nil /\ cpc = "returned") => ret.err # Nil

C4_Witness ==
    /\ wpc = "exited"
    /\ ch = "closed"
    /\ retryCallback = "all"
    /\ retryCount = 2
    /\ nAttempts = 3
    /\ err # Nil
    /\ cpc = "returned"
    /\ ret.err = err

\* C5: a caller that returns after the context was cancelled never returns a
\* successful result (it returns the context's error, which is not nil).
C5_CancellationWins ==
    (cpc = "returned" /\ ret.ctx # "none") => ret.err # Nil

\* C6: no request is handed to the transport once the context is cancelled.
C6_NoRequestAfterCancel == \A k \in 1..Len(sent) : sent[k].ctx = "none"

\* C7: an attempt is never started after an attempt that returned the
\* context's error (while a later attempt runs, err still holds the error of
\* the attempt before it).
C7_CancellationTerminal ==
    (wpc \in {"loop", "inflight", "ret"} /\ attempts > 0) =>
        err.kind \notin ContextErrors

\* C8: after the context was cancelled during a retry pause, the server
\* selector is not called again by this query.
C8_NoAttemptAfterPauseCancel == pauseCancel >= 0 => nextCalls = pauseCancel

C10_NilCallbackRetriesAll ==
    (/\ retryCallback = "default"
     /\ ctxErr = "none"
     /\ wpc = "exited"
     /\ ch = "closed"
     /\ err # Nil) => attempts = retryCount

Rounds(c) == IF c.pc = "cas" \/ c.how = "cas" THEN c.j + 1 ELSE c.j

\* C12: while no two calls of Next have overlapped, the k-th call returns
\* the ((k - 1) mod N + 1)-th configured address: the N addresses in order
\* from the first, then the first again.
C12_SequentialRotation ==
    (~contended /\ calls >= 1 /\ call[last].pc = "done") =>
        call[last].out = values[((calls - 1) % Len(values)) + 1]

C12_Witness ==
    /\ ~contended
    /\ Len(values) > 1
    /\ calls = Len(values) + 1
    /\ call[last].pc = "done"
    /\ call[last].out = values[1]

\* C13: whatever the interleaving of the calls of Next, the cursor is in
\* 0..N-1 and every call returns one of the N configured addresses.
C13_CursorInRange ==
    /\ i \in 0..(Len(values) - 1)
    /\ \A p \in Callers :
          call[p].pc = "done" =>
              \E k \in 1..Len(values) : call[p].out = values[k]

C13_Witness ==
    \E p \in Callers :
        /\ call[p].pc = "done"
        /\ call[p].overlap >= 2
        /\ call[p].how = "cas"
        /\ call[p].j >= 1
        /\ call[p].out = values[Len(values)]

\* The place in the configured list of an address a call returned.
IndexOf(a) == CHOOSE k \in 0..(Len(values) - 1) : values[k + 1] = a

\* How far round the rotation the address call c returned is from the
\* cursor value at the start of the call.
Skip(c) == (IndexOf(c.out) + Len(values) - c.start) % Len(values)

\* C14: the index a call of Next returns is at most K places further round
\* the rotation than the cursor was when the call began, K being the number
\* of other calls that overlapped it.
C14_BoundedSkip ==
    \A p \in Callers :
        (call[p].pc = "done" /\ call[p].how # "fast") =>
            Skip(call[p]) <= call[p].overlap

C14_Witness ==
    \E p \in Callers :
        /\ call[p].pc = "done"
        /\ Len(values) = 3
        /\ call[p].overlap = 2
        /\ Skip(call[p]) = 2

\* C15: a call of Next makes at most 4 load/CAS rounds whatever the other
\* callers do: a call in progress is in one of its first 4 rounds and its
\* next step can always be taken (it waits for no other caller), and a call
\* that returned after the loop had 4 failed CAS and returned the address at
\* the cursor value it loaded last.
C15_BoundedRounds ==
    \A p \in Callers :
        /\ Rounds(call[p]) <= casRounds
        /\ InCall(p) =>
              /\ call[p].j < casRounds
              /\ ENABLED (NextLoad(p) \/ NextCAS(p))
        /\ call[p].how = "giveup" =>
              /\ call[p].j = casRounds
              /\ call[p].pc = "done"
              /\ call[p].out = values[call[p].i + 1]

C15_Witness ==
    \E p \in Callers :
        /\ call[p].pc = "done"
        /\ call[p].how = "giveup"
        /\ call[p].j = casRounds

GotResponse == recv # <<>> /\ recv[Len(recv)].err = Nil

LastResponse == recv[Len(recv)]

\* Text s is not empty and is one of the pieces of text t.
Contains(t, s) == s # "" /\ \E k \in 1..Len(t) : t[k] = s

\* C17: an attempt whose response has status 200 and a RangeException
\* header returns an ErrRangeException whose Message is the header value,
\* whatever the body; it returns no payload; and the text of Error() holds
\* the message and not the body.
C17_RangeException ==
    (/\ wpc = "ret"
     /\ GotResponse
     /\ LastResponse.status = StatusOK
     /\ LastResponse.exc # "") =>
        /\ rv.err.kind = "ErrRangeException"
        /\ rv.err.message = LastResponse.exc
        /\ rv.buf = ""
        /\ Contains(ErrorText(rv.err), LastResponse.exc)
        /\ ~Contains(ErrorText(rv.err), LastResponse.body)

C17_Witness ==
    /\ wpc = "ret"
    /\ GotResponse
    /\ LastResponse.status = StatusOK
    /\ LastResponse.exc = "boom"
    /\ LastResponse.body = "alpha\nbravo"
    /\ rv.err.message = "boom"

\* C18: an attempt whose last response has a status other than 200, 414 and
\* 405 (the context not being cancelled) returns an ErrStatusNotOK with that
\* status code whose Error() is the status text and does not hold the text
\* of the body.
C18_StatusErrorText ==
    (/\ wpc = "ret"
     /\ ctxErr = "none"
     /\ GotResponse
     /\ LastResponse.status \notin {StatusOK, StatusRequestURITooLong,
                                     StatusMethodNotAllowed}) =>
        /\ rv.err.kind = "ErrStatusNotOK"
        /\ rv.err.code = LastResponse.status
        /\ ErrorText(rv.err) = <<StatusText(LastResponse.status)>>
        /\ ~Contains(ErrorText(rv.err), LastResponse.body)

\* C19: an ErrRangeException or ErrStatusNotOK an attempt returns has in
\* Body the body of the response it was made for.
C19_ErrorsCarryBody ==
    (/\ wpc = "ret"
     /\ GotResponse
     /\ rv.err.kind \in StatusErrors) =>
        rv.err.body = LastResponse.body

\* C20: when the attempt executor returns, the body of every response it
\* received has been read to its end and closed.
C20_BodiesClosed ==
    wpc = "ret" =>
        \A k \in 1..Len(recv) : recv[k].err = Nil => recv[k].closed

\* The Config as NewClient saw it: the caller only writes to the elements
\* of Servers afterwards.
Refused ==
    \/ Len(config.Servers) = 0
    \/ config.RetryCount < 0
    \/ config.RetryPause < 0

\* C21: NewClient returns an error and no client exactly when the server
\* list is empty or RetryCount or RetryPause is negative, and otherwise a
\* client and no error; without a client no query is ever made.
C21_Construction ==
    made.called =>
        /\ made.ok <=> ~Refused
        /\ made.ok <=> (made.err = "none")
        /\ made.ok => /\ Len(values) = Len(config.Servers)
                      /\ retryCount = config.RetryCount
                      /\ retryPause = config.RetryPause
        /\ ~made.ok => queries = 0 /\ values = <<>>

C21_Witness ==
    /\ made.called
    /\ ~made.ok
    /\ config.RetryCount = 0
    /\ config.RetryPause < 0
    /\ Len(config.Servers) = 2

\* The requests of this attempt that Do has not yet answered.
InFlight == Len(sent) - Len(recv)

\* C22: a query never has two requests in flight; a request is in flight
\* only while the executor waits in Do; and when the worker is about to
\* start an attempt, sleeps in the pause or has ended, no attempt is
\* outstanding.
C22_Sequential ==
    /\ InFlight \in {0, 1}
    /\ (InFlight = 1) <=> (wpc = "inflight")
    /\ wpc \in {"idle", "begin", "sleep", "exited"} =>
          sent = <<>> /\ recv = <<>> /\ rv = NoResult

C22_Witness ==
    /\ nAttempts = 2
    /\ pauses = 1
    /\ Len(sent) = 2
    /\ Len(recv) = 1
    /\ wpc = "inflight"

\* C23: the worker stores each attempt's error as the executor returned it,
\* nothing else writes it during the query, and a query that returns through
\* the result channel with an error returns the error of the attempt after
\* which the worker ended: not an earlier one, not nil, not another error.
C23_FinalErrorUnchanged ==
    [][/\ wpc = "ret" /\ wpc' # "ret" => err' = rv.err
       /\ wpc # "ret" /\ cpc' # "idle" /\ cpc = cpc' => err' = err
       /\ cpc = "select" /\ cpc' = "returned" /\ ret'.via = "ch" =>
             /\ wpc = "exited"
             /\ ret'.err = err
             /\ err # Nil => ret'.val = ""]_vars

C23_Witness ==
    /\ cpc = "returned"
    /\ ret.via = "ch"
    /\ nAttempts = 2
    /\ ret.err.kind = "ErrStatusNotOK"
    /\ ret.err.code = StatusServiceUnavailable

\* C24: a call that has returned gave the payload with a nil error, or no
\* payload with the worker's error, or no payload with the error of its
\* context; a payload never comes with an error.
C24_ThreeShapes ==
    cpc = "returned" =>
        /\ ret.err # Nil => ret.val = ""
        /\ \/ ret.via = "ch" /\ ret.err = Nil /\ ret.val = buf
           \/ ret.via = "ch" /\ ret.err # Nil /\ ret.err = err
           \/ /\ ret.via = "done"
              /\ ret.ctx \in {"Canceled", "DeadlineExceeded"}
              /\ ret.err = CtxErr(ret.ctx)

\* The worker holds a payload and an error, and the caller got the error only.
C24_Witness ==
    /\ cpc = "returned"
    /\ ret.via = "ch"
    /\ buf # ""
    /\ ret.err # Nil
    /\ ret.val = ""

\* C25: the attempt that returns nil ends the worker, which closes the
\* channel holding that attempt's payload; after the worker has ended the
\* query issues no attempt and no request and does not advance the selector;
\* and the caller that reads the channel is given the payload held.
C25_StopAtFirstSuccess ==
    [][/\ wpc = "ret" /\ rv.err = Nil /\ wpc' # "ret" =>
             /\ wpc' = "exited"
             /\ ch' = "closed"
             /\ err' = Nil
             /\ buf' = rv.buf
       /\ wpc = "exited" /\ queries' = queries =>
             /\ wpc' = "exited"
             /\ nAttempts' = nAttempts
             /\ nextCalls' = nextCalls
             /\ i' = i
             /\ sent' = sent
             /\ buf' = buf
       /\ cpc = "select" /\ cpc' = "returned" /\ ret'.via = "ch" /\ err = Nil =>
             ret'.val = buf]_vars

\* C26: the caller of a query always returns, given that goroutines run and
\* that each call of Do returns or the context is cancelled; and a waiting
\* caller whose context is done can return at once, whatever the worker is
\* doing.
C26_EventuallyReturns ==
    /\ [](cpc = "select" /\ ctxErr # "none" => ENABLED selectDone)
    /\ (cpc = "select") ~> (cpc = "returned")

\* The worker woke from the pause, found the context done and ended without
\* closing the channel; the caller returned the context's error.
C26_Witness ==
    /\ cpc = "returned"
    /\ ret.via = "done"
    /\ wpc = "exited"
    /\ ch = "open"

\* C27: a body of lines joined by newlines, the last line not empty, is
\* split into those same lines whether or not one newline follows the last
\* line; the empty body and the body of one newline are split into nothing.
C27_LineSplitting ==
    (probe.asked /\ (probe.lines = <<>> \/ probe.lines[Len(probe.lines)] # <<>>))
        => /\ probe.split.response = probe.lines
           /\ probe.split.queryCtx = probe.lines

C27_Witness ==
    /\ probe.asked
    /\ probe.trailing
    /\ probe.lines = << <<"a">>, <<>>, <<"a", "b">> >>
    /\ probe.split.queryCtx = probe.lines
    /\ probe.split.response = probe.lines

Total(st) ==
    st["NoErr"] + st["ErrContextDone"] + st["ErrRangeException"]
        + st["ErrStatusNotOK"] + st["ErrUnknown"]

C29_ClientImmutable ==
    [][made.called =>
         /\ values' = values
         /\ retryCount' = retryCount
         /\ retryPause' = retryPause
         /\ retryCallback' = retryCallback
         /\ made' = made]_vars

\* The caller overwrote its slice, a query then ran and advanced the cursor,
\* and the pool still holds the address given at construction.
C29_Witness ==
    /\ made.ok
    /\ config.Servers[1] = Elsewhere
    /\ values[1] = <<"server", 1>>
    /\ cpc = "returned"
    /\ ret.err = Nil
    /\ Len(values) = 2
    /\ i = 1

Position(p, k) == ((p + k - 1) % Len(values)) + 1

BuiltBoth ==
    IF version = 1 THEN loopI = 2 ELSE wasGetTried /\ wasPutTried

\* C32: a pass of the executor's loop in which http.NewRequest fails sends
\* nothing and leaves the executor at the other method; an attempt whose
\* requests cannot be built ends with no request sent, and when both
\* methods were tried it returns the construction error.
C32_ConstructionFailure ==
    /\ [](badRequest # {} =>
            /\ sent = <<>> /\ recv = <<>>
            /\ wpc # "inflight"
            /\ (wpc = "ret" /\ BuiltBoth) =>
                  rv.err # Nil /\ rv.err = ErrNewRequest)
    /\ [][(/\ wpc = "loop" /\ wpc' = "loop"
           /\ method \in badRequest
           /\ execVars' # execVars) =>
            /\ method' # method
            /\ method' \in {MethodGet, MethodPut}
            /\ sent' = sent]_vars

\* PUT could not be built, then GET could not: the attempt returns the
\* construction error.
C32_Witness ==
    /\ wpc = "ret"
    /\ badRequest # {}
    /\ uriLen > defaultQueryLengthThreshold
    /\ method = MethodPut
    /\ BuiltBoth
    /\ rv.err = ErrNewRequest
    /\ sent = <<>>

\* C33: when Do returns an error and no response, the attempt returns that
\* error as it is and at once: the requests sent are those sent before, the
\* executor does not go round its loop again and the other method is not
\* sent because of it.
C33_TransportErrorEndsAttempt ==
    /\ []((wpc = "ret" /\ recv # <<>> /\ recv[Len(recv)].err # Nil) =>
            /\ rv.err = recv[Len(recv)].err
            /\ rv.buf = ""
            /\ Len(sent) = Len(recv)
            /\ \A k \in 1..(Len(recv) - 1) : recv[k].err = Nil)
    /\ [][(wpc = "inflight" /\ recv' # recv /\ recv'[Len(recv')].err # Nil)
            => /\ wpc' = "ret"
               /\ rv'.err = recv'[Len(recv')].err
               /\ sent' = sent
               /\ method' = method]_vars

\* The first request of the attempt met a transport error; the attempt
\* ended with one request sent.
C33_Witness ==
    /\ wpc = "ret"
    /\ Len(sent) = 1
    /\ Len(recv) = 1
    /\ recv[1].err # Nil
    /\ recv[1].err.kind = "ErrTransport"
    /\ rv.err = recv[1].err

\* C34: a worker whose context was cancelled while its attempt was in
\* flight ends, given that calls of Do return; no query makes more than
\* retryCount + 1 attempts; and what the worker brings back after its caller
\* has returned the context's error does not change what the caller got.
C34_CancelledWorkerEnds ==
    /\ [](nAttempts <= retryCount + 1)
    /\ [][(cpc = "returned" /\ ret.via = "done" /\ queries' = queries) =>
            ret' = ret /\ cpc' = cpc]_vars
    /\ (ctxErr # "none" /\ wpc = "inflight") ~> (wpc = "exited")

\* The caller left with the context's error; the attempt in flight then
\* succeeded with a payload, which stays with the worker.
C34_Witness ==
    /\ cpc = "returned"
    /\ ret.via = "done"
    /\ ret.val = ""
    /\ wpc = "exited"
    /\ ch = "closed"
    /\ err = Nil
    /\ buf = "alpha"

\* C35: the worker calls the retry predicate only for an attempt that
\* failed with attempts below retryCount: never after a success, never with
\* the budget used up, hence at most retryCount times in a query and never
\* in a client made by NewMockClient, whose predicate is nil.
C35_PredicateOnlyWithBudget ==
    /\ ~consulted.onSuccess
    /\ ~consulted.atBudget
    /\ ~consulted.nilCalled
    /\ consulted.n <= retryCount
    /\ consulted.n <= attempts + 1
    /\ retryCallback = "nil" => consulted.n = 0

\* A mock client's only attempt failed; the worker ended without calling
\* the predicate.
C35_Witness ==
    /\ retryCallback = "nil"
    /\ wpc = "exited"
    /\ ch = "closed"
    /\ err # Nil
    /\ nAttempts = 1
    /\ consulted.n = 0

\* C36: the channel of a query is closed by the step in which the worker
\* ends and by no other; once it is closed the worker takes no further
\* step, so the channel is not closed again and err and the payload are not
\* written again.
C36_ClosedOnceAtExit ==
    /\ [](ch = "closed" => wpc = "exited")
    /\ [][/\ ((ch = "open" /\ ch' = "closed") =>
               (wpc = "ret" /\ wpc' = "exited"))
           /\ ((ch = "closed" /\ queries' = queries) =>
               (/\ ch' = "closed"
                /\ wpc' = "exited"
                /\ err' = err
                /\ buf' = buf
                /\ nAttempts' = nAttempts))]_vars

\* The worker closed the channel after a failed final attempt and is gone;
\* the caller has yet to look.
C36_Witness ==
    /\ ch = "closed"
    /\ wpc = "exited"
    /\ cpc = "select"
    /\ err # Nil
    /\ nAttempts = 2

\* C37: the caller returns the worker's err and payload only from a state
\* in which the channel is closed, and then the worker has ended; on the
\* ctx.Done() branch what it returns is made of the context's error alone,
\* whatever the worker holds or is about to write.
C37_CallerReadsAfterClose ==
    [][(cpc = "select" /\ cpc' = "returned") =>
         \/ /\ ret'.via = "ch"
            /\ ch = "closed"
            /\ wpc = "exited"
            /\ wpc' = "exited"
            /\ ret'.err = err
            /\ err = Nil => ret'.val = buf
         \/ /\ ret'.via = "done"
            /\ ctxErr # "none"
            /\ ret'.err = CtxErr(ctxErr)
            /\ ret'.val = ""]_vars

\* The caller has left on the ctx.Done() branch while the worker is about
\* to store the result of its attempt.
C37_Witness ==
    /\ cpc = "returned"
    /\ ret.via = "done"
    /\ ch = "open"
    /\ wpc = "ret"
    /\ rv.err = Nil
    /\ rv.buf = "alpha"
    /\ ret.val = ""

\* C38: on a pool of two or more addresses a call of Next that, together
\* with the calls that overlapped it, makes at most 4 calls returned through
\* a compare-and-swap that swapped; a call that gave up was overlapped by 4
\* other calls or more.  Each swap moves the cursor one place, and the k-th
\* call to swap returns the address at place (k - 1) mod N, the cursor
\* having started at 0.
C38_FewOverlapsCommit ==
    \A p \in Callers :
        /\ (call[p].pc = "done" /\ Len(values) >= 2 /\ call[p].overlap + 1 <= 4)
              => call[p].how = "cas"
        /\ call[p].how = "giveup" => call[p].overlap + 1 >= 5
        /\ call[p].how = "cas" =>
              /\ call[p].nth \in 1..committed
              /\ call[p].out = values[((call[p].nth - 1) % Len(values)) + 1]
              /\ call[p].j < casRounds

\* A call that three others overlapped lost three compare-and-swaps and won
\* the fourth.
C38_Witness ==
    \E p \in Callers :
        /\ call[p].pc = "done"
        /\ call[p].overlap = 3
        /\ call[p].j = 3
        /\ call[p].how = "cas"
        /\ call[p].nth = 4

\* C39: the cursor is the number of calls whose compare-and-swap swapped,
\* modulo N, the cursor having started at 0: the step in which a call gives
\* up, like every compare-and-swap that fails, leaves the cursor as it was,
\* and a call on a pool of one address returns that address without a load
\* or a compare-and-swap.
C39_CursorCountsCommits ==
    /\ [](/\ i = committed % Len(values)
          /\ committed <= calls
          /\ Len(values) = 1 =>
                /\ i = 0 /\ committed = 0
                /\ \A p \in Callers :
                      /\ call[p].pc \in {"idle", "done"}
                      /\ call[p].pc = "done" =>
                            call[p].how = "fast" /\ call[p].out = values[1])
    /\ [][\A p \in Callers :
            /\ (call[p].pc = "cas" /\ call'[p].how = "giveup") =>
                  (i' = i /\ committed' = committed /\ call[p].j = casRounds - 1)
            /\ (call[p].pc = "cas" /\ call'[p].pc = "load") =>
                  (i' = i /\ committed' = committed)
            /\ (call[p].pc = "cas" /\ call'[p].how = "cas") =>
                  (i' = (i + 1) % Len(values) /\ committed' = committed + 1)]_vars

\* One call gave up, four swapped: on three addresses the cursor is at 1.
C39_Witness ==
    /\ Len(values) = 3
    /\ calls = 5
    /\ committed = 4
    /\ i = 1
    /\ \A p \in Callers : call[p].pc = "done"
    /\ \E p \in Callers : call[p].how = "giveup"

====
